---- MODULE Spec2Model ----
(***************************************************************************)
(* A model of the learning-bot RAG service: the chunker                    *)
(* (utils/document_processor.py), the per-subject vector index             *)
(* (services/vector_db_service.py), the subject registry                   *)
(* (services/subject_service.py), the answer pipeline                      *)
(* (services/chatbot_service.py) and the HTTP handlers (routers/).         *)
(*                                                                         *)
(* Python strings are sequences of one-character strings; a Python index i *)
(* is the TLA+ index i + 1. A dict is a function on its keys.              *)
(*                                                                         *)
(* Every handler is an `async def` on one event loop and only               *)
(* upload_document awaits (file.read()), so every handler is one atomic    *)
(* step except upload_document, which is two.                              *)
(***************************************************************************)
EXTENDS Integers, Sequences, FiniteSets, TLC

\* ------------------------------------------------------------------ bounds
\* Longest input text of chunk_text.
MaxLen == 6
\* Largest chunk_size passed to chunk_text.
MaxSize == 5
\* Capacity of the chunks list: an append beyond it is a MemoryError.
MaxChunks == 7
\* Subjects ever created.
MaxSubjects == 2
\* Upload requests ever made.
MaxUploads == 1
\* Most chunks chunk_text yields for one uploaded document.
MaxDocChunks == 2
\* Largest n_results of a direct query_documents / answer_question call.
MaxResults == 2
\* Distinct query texts (questions), numbered by their embedding.
MaxQueries == 2
\* Longest retrieval result of the stubbed index.
MaxStub == 4

\* ------------------------------------------------------- program constants
\* settings.MAX_FILE_SIZE_MB
MAX_FILE_SIZE_MB == 10
\* answer_question's default n_results, which ask_question relies on
DEFAULT_N_RESULTS == 5
\* _create_context keeps documents[:5]
CONTEXT_LIMIT == 5
\* _generate_answer replaces an answer of fewer than 3 characters
MIN_ANSWER_LEN == 3

\* The fixed answer when nothing was found, as a Python string.
Sentinel ==
    <<"N", "o", " ", "i", "n", "f", "o", "r", "m", "a", "t", "i", "o", "n",
    " ", "f", "o", "u", "n", "d", " ", "i", "n", " ", "t", "h", "e", " ", "s",
    "u", "b", "j", "e", "c", "t", " ", "d", "o", "c", "u", "m", "e", "n", "t",
    "s", ".">>

\* What the generation model may return (tokenizer.decode of its output).
GenOutputs == { <<>>, <<" ", "a", " ", " ">>, <<"Y", "e", "s", ".">> }

\* The characters of a text, one per class chunk_text distinguishes: a letter,
\* the sentence terminator, a blank, and the newline (a break and whitespace).
Chars == {"a", ".", " ", "\n"}

\* Names of uploaded files.
Filenames == {"A.pdf", "B.txt", "C.exe"}

\* Python's None, where a dict is expected.
None == [None |-> TRUE]

VARIABLES
    \* chunk_text: its arguments, its locals and its position
    text, chunk_size, chunk_overlap, start, end, chunks, cpc,
    \* history: the start positions at which the scan loop has begun an iteration
    starts,
    \* history: the windows text[start:end] the scan loop has taken, as <<start, end>>
    windows,
    \* subject_service.subjects: subject id -> the subject's documents
    subjects,
    \* the Chroma client's collections: subject id -> the entries of subject_<id>
    collections,
    \* the upload_document requests: each one's position and its arguments
    uploads,
    \* uuid4() of create_subject: the next fresh subject id
    next_subject,
    \* history: document id -> the number of chunks add_documents was given
    batch,
    \* history: subjects deleted with indexed chunks and not added to since
    purged,
    \* the response of the call that is returning, [op |-> "none"] between calls
    resp,
    \* the canned retrieval result of a stubbed vector_db_service
    stub

chunkVars ==
    <<text, chunk_size, chunk_overlap, start, end, chunks, cpc, starts, windows>>
svcVars == <<subjects, collections, uploads, next_subject, batch, purged>>
vars == <<chunkVars, svcVars, resp, stub>>

\* ------------------------------------------------------- Python's str, list
MinOf(S) == CHOOSE x \in S : \A y \in S : x <= y
MaxOf(S) == CHOOSE x \in S : \A y \in S : x >= y

\* str.isspace of one character
IsSpace(c) == c \in {" ", "\n"}

\* strip that removes only the leading whitespace (str.lstrip)
strip_LeadingOnly(s) ==
    LET keep == {i \in 1..Len(s) : ~IsSpace(s[i])}
    IN  IF keep = {} THEN <<>> ELSE SubSeq(s, MinOf(keep), Len(s))

\* str.strip(): the text without its leading and trailing whitespace
strip(s) ==
    LET keep == {i \in 1..Len(s) : ~IsSpace(s[i])}
    IN  IF keep = {} THEN <<>> ELSE SubSeq(s, MinOf(keep), MaxOf(keep))

\* str.rfind(c): the last 0-based index of c in s, -1 when there is none
rfind(s, c) ==
    LET at == {i \in 1..Len(s) : s[i] = c}
    IN  IF at = {} THEN -1 ELSE MaxOf(at) - 1

\* A slice bound as Python clamps it: a negative bound counts from the end.
ClampIndex(i, n) ==
    IF i < 0 THEN (IF i + n < 0 THEN 0 ELSE i + n)
    ELSE (IF i > n THEN n ELSE i)

\* s[a:b] with Python's semantics (0-based, end exclusive, clamped)
slice(s, a, b) ==
    LET lo == ClampIndex(a, Len(s))
        hi == ClampIndex(b, Len(s))
    IN  IF lo >= hi THEN <<>> ELSE SubSeq(s, lo + 1, hi)

\* All sequences over S of length at most n
SeqsUpTo(S, n) == UNION {[1..k -> S] : k \in 0..n}

\* ------------------------------------------------------------- chunk_text
\* WindowEnd with the window one character too long
WindowEnd_OffByOne(t, size, st) == st + size + 1

\* The window end of the iteration that begins at st: start + chunk_size, cut
\* back to just after the last '.' or newline when that lies past the midpoint
\* (last_break > chunk_size * 0.5) and the window stops short of the text's end.
WindowEnd(t, size, st) ==
    LET rawEnd == st + size
        chunk == slice(t, st, rawEnd)
        last_period == rfind(chunk, ".")
        last_newline == rfind(chunk, "\n")
        last_break == IF last_period >= last_newline THEN last_period ELSE last_newline
    IN  IF rawEnd < Len(t) /\ 2 * last_break > size
        THEN st + last_break + 1
        ELSE rawEnd

\* NextStart without the test for the end of the text
NextStart_NoEndCheck(t, e, overlap) == e - overlap

\* start for the next iteration
NextStart(t, e, overlap) == IF e < Len(t) THEN e - overlap ELSE Len(t)

\* The while loop from start st with the chunks acc appended so far, as a
\* function: returned is FALSE when the loop begins an iteration at a start in
\* seen, where it has begun one before, and so never exits.
RECURSIVE ScanFrom(_, _, _, _, _, _)
ScanFrom(t, size, overlap, st, acc, seen) ==
    IF st >= Len(t)
    THEN [returned |-> TRUE, chunks |-> acc]
    ELSE IF st \in seen
    THEN [returned |-> FALSE, chunks |-> acc]
    ELSE LET e == WindowEnd(t, size, st)
             chunk == slice(t, st, e)
         IN  ScanFrom(t, size, overlap, NextStart(t, e, overlap),
                      IF strip(chunk) = <<>> THEN acc
                      ELSE Append(acc, strip(chunk)),
                      seen \cup {st})

\* chunk_text as a function of its arguments
chunk_text(t, size, overlap) ==
    IF Len(t) = 0 \/ strip(t) = <<>>
    THEN [returned |-> TRUE, chunks |-> <<>>]
    ELSE ScanFrom(t, size, overlap, 0, <<>>, {})

\* if not text or not text.strip(): return []
ChunkEnter ==
    /\ cpc = "call"
    /\ IF Len(text) = 0 \/ strip(text) = <<>>
       THEN cpc' = "done"
       ELSE cpc' = "loop"
    /\ chunks' = <<>>
    /\ start' = 0
    /\ UNCHANGED <<text, chunk_size, chunk_overlap, end, starts, windows>>
    /\ UNCHANGED <<svcVars, resp, stub>>

\* One iteration of the while loop
ChunkIterate ==
    /\ cpc = "loop"
    /\ start < Len(text)
    /\ LET e == WindowEnd(text, chunk_size, start)
           chunk == slice(text, start, e)
       IN  /\ end' = e
           /\ starts' = starts \cup {start}
           /\ windows' = windows \cup {<<start, e>>}
           /\ start' = NextStart(text, e, chunk_overlap)
           /\ IF strip(chunk) = <<>>
              THEN /\ chunks' = chunks
                   /\ cpc' = "loop"
              ELSE IF Len(chunks) < MaxChunks
                   THEN /\ chunks' = Append(chunks, strip(chunk))
                        /\ cpc' = "loop"
                   ELSE /\ chunks' = chunks
                        /\ cpc' = "MemoryError"
    /\ UNCHANGED <<text, chunk_size, chunk_overlap>>
    /\ UNCHANGED <<svcVars, resp, stub>>

\* The loop test fails: return chunks
ChunkReturn ==
    /\ cpc = "loop"
    /\ start >= Len(text)
    /\ cpc' = "done"
    /\ UNCHANGED <<text, chunk_size, chunk_overlap, start, end, chunks, starts,
                   windows>>
    /\ UNCHANGED <<svcVars, resp, stub>>

\* ------------------------------------------------------ vector_db_service
\* The id add_documents gives chunk i of a document: {document_id}_chunk_{i}
ChunkId(document_id, i) == <<document_id, i>>

\* get_or_create_collection on the client's collections
get_or_create_collection(cols, subject_id) ==
    IF subject_id \in DOMAIN cols THEN cols ELSE cols @@ (subject_id :> <<>>)

\* The entries of one document's batch: ids and the merged metadata
\* {**metadata, "chunk_index": i, "document_id": document_id}
ChunkEntries(document_id, n, metadata) ==
    [i \in 1..n |->
        [id |-> ChunkId(document_id, i - 1),
         metadata |-> [chunk_index |-> i - 1, document_id |-> document_id]
                        @@ metadata]]

\* add_documents that loses the last chunk of the batch
add_documents_Partial(cols, subject_id, document_id, n, metadata) ==
    LET c == get_or_create_collection(cols, subject_id)
    IN  [c EXCEPT ![subject_id] = @ \o ChunkEntries(document_id, n - 1, metadata)]

\* add_documents with n chunks: nothing for no chunks, else one collection.add
\* of the whole batch
add_documents(cols, subject_id, document_id, n, metadata) ==
    IF n = 0
    THEN cols
    ELSE LET c == get_or_create_collection(cols, subject_id)
         IN  [c EXCEPT ![subject_id] = @ \o ChunkEntries(document_id, n, metadata)]

\* delete_collection that leaves the collection in place
delete_collection_Noop(cols, subject_id) == cols

\* delete_collection: the client raises for a collection that does not exist,
\* which is swallowed
delete_collection(cols, subject_id) ==
    IF subject_id \in DOMAIN cols
    THEN [c \in DOMAIN cols \ {subject_id} |-> cols[c]]
    ELSE cols

\* The distance of a query's embedding from that of the entry at position p: the
\* embedding model is a deterministic function, here of a text onto a line,
\* the entry at position p at p and query number q at q.
Distance(query, p) == IF p >= query THEN p - query ELSE query - p

\* collection.query for k neighbours out of count: the positions of the k
\* entries nearest the query, by ascending distance (ties by position)
Neighbours(count, k, query) ==
    LET Nearer(p1, p2) ==
            \/ Distance(query, p1) < Distance(query, p2)
            \/ Distance(query, p1) = Distance(query, p2) /\ p1 < p2
        rank(p) == 1 + Cardinality({p2 \in 1..count : Nearer(p2, p)})
    IN  [i \in 1..k |-> CHOOSE p \in 1..count : rank(p) = i]

\* The failure path without the except clause: the exception propagates
EmptyResult_Raises(cols, count, failed) ==
    [collections |-> cols, documents |-> <<>>, metadatas |-> <<>>,
     raised |-> failed, failed |-> failed, count |-> count, requested |-> 0,
     embedded |-> FALSE]

\* The empty result of query_documents: for an empty collection, and from the
\* except clause when a backend step failed
EmptyResult(cols, count, failed) ==
    [collections |-> cols, documents |-> <<>>, metadatas |-> <<>>,
     raised |-> FALSE, failed |-> failed, count |-> count, requested |-> 0,
     embedded |-> FALSE]

\* RequestedCount that asks for the whole collection whatever n_results is
RequestedCount_IgnoresLimit(n_results, count) == count

\* The n_results handed to collection.query: min(n_results, collection.count())
RequestedCount(n_results, count) ==
    IF n_results <= count THEN n_results ELSE count

\* query_documents: its possible results, each with the collections it leaves.
\* fault: the backend step that raises ("lookup": get_or_create_collection,
\* "search": count, encode or query), swallowed by except Exception.
\* count is the size of the collection when the call began.
QueryOutcomes(cols, subject_id, query, n_results) ==
    LET c == get_or_create_collection(cols, subject_id)
        entries == c[subject_id]
        count == Len(entries)
        k == RequestedCount(n_results, count)
        o == Neighbours(count, k, query)
    IN  {EmptyResult(cols, count, TRUE), EmptyResult(c, count, TRUE)}
        \cup
        (IF count = 0
         THEN {EmptyResult(c, 0, FALSE)}
         ELSE {[collections |-> c,
                documents |-> [i \in 1..k |-> entries[o[i]].id],
                metadatas |-> [i \in 1..k |-> entries[o[i]].metadata],
                raised |-> FALSE, failed |-> FALSE, count |-> count,
                requested |-> k, embedded |-> TRUE]})

\* --------------------------------------------------------- chatbot_service
\* _create_context: the documents the context numbers (documents[:5]); the
\* context string is empty exactly when there are none
create_context(documents) ==
    IF Len(documents) <= CONTEXT_LIMIT
    THEN documents
    ELSE SubSeq(documents, 1, CONTEXT_LIMIT)

\* _generate_answer: the sentinel without the model for an empty context; else
\* the model is invoked and may raise, and a short answer becomes the sentinel
GenerateOutcomes(context) ==
    IF context = <<>>
    THEN {[answer |-> Sentinel, invoked |-> FALSE, raised |-> FALSE]}
    ELSE {[answer |-> IF out = <<>> \/ Len(strip(out)) < MIN_ANSWER_LEN
                      THEN Sentinel ELSE out,
           invoked |-> TRUE, raised |-> FALSE] : out \in GenOutputs}
         \cup {[answer |-> <<>>, invoked |-> TRUE, raised |-> TRUE]}

\* `if metadata`: None and the empty dict are falsy
Truthy(metadata) == metadata # None /\ DOMAIN metadata # {}

\* ExtractSources without the seen_files test
RECURSIVE ExtractSources_NoDedup(_, _, _)
ExtractSources_NoDedup(metadatas, sources, seen_files) ==
    IF metadatas = <<>>
    THEN sources
    ELSE LET metadata == Head(metadatas)
         IN  IF Truthy(metadata) /\ "filename" \in DOMAIN metadata
             THEN ExtractSources_NoDedup(Tail(metadatas),
                                         Append(sources, metadata.filename),
                                         seen_files)
             ELSE ExtractSources_NoDedup(Tail(metadatas), sources, seen_files)

\* The loop over metadatas that collects each filename the first time it is seen
RECURSIVE ExtractSources(_, _, _)
ExtractSources(metadatas, sources, seen_files) ==
    IF metadatas = <<>>
    THEN sources
    ELSE LET metadata == Head(metadatas)
         IN  IF Truthy(metadata) /\ "filename" \in DOMAIN metadata
                /\ metadata.filename \notin seen_files
             THEN ExtractSources(Tail(metadatas),
                                 Append(sources, metadata.filename),
                                 seen_files \cup {metadata.filename})
             ELSE ExtractSources(Tail(metadatas), sources, seen_files)

\* AnswerOutcomes that hands every retrieval result, empty or not, to the model
AnswerOutcomes_AlwaysGenerate(documents, metadatas) ==
    {[answer |-> IF out = <<>> \/ Len(strip(out)) < MIN_ANSWER_LEN
                 THEN Sentinel ELSE out,
      sources |-> ExtractSources(metadatas, <<>>, {}),
      invoked |-> TRUE, raised |-> FALSE] : out \in GenOutputs}

\* answer_question after retrieval: the sentinel and no sources when nothing was
\* retrieved, else the generated answer with the sources
AnswerOutcomes(documents, metadatas) ==
    IF documents = <<>>
    THEN {[answer |-> Sentinel, sources |-> <<>>, invoked |-> FALSE,
           raised |-> FALSE]}
    ELSE {[answer |-> g.answer,
           sources |-> IF g.raised THEN <<>>
                       ELSE ExtractSources(metadatas, <<>>, {}),
           invoked |-> g.invoked, raised |-> g.raised]
            : g \in GenerateOutcomes(create_context(documents))}

\* answer_question: retrieval by query_documents, then the answer
AnswerQuestionOutcomes(cols, subject_id, question, n_results) ==
    UNION {
        IF q.raised
        THEN {[collections |-> q.collections, retrieved |-> <<>>,
               metadatas |-> <<>>, failed |-> q.failed, count |-> q.count,
               embedded |-> q.embedded, answer |-> <<>>, sources |-> <<>>,
               invoked |-> FALSE, raised |-> TRUE]}
        ELSE {[collections |-> q.collections, retrieved |-> q.documents,
               metadatas |-> q.metadatas, failed |-> q.failed,
               count |-> q.count, embedded |-> q.embedded,
               answer |-> a.answer, sources |-> a.sources,
               invoked |-> a.invoked, raised |-> a.raised]
                : a \in AnswerOutcomes(q.documents, q.metadatas)}
        : q \in QueryOutcomes(cols, subject_id, question, n_results)}

\* ------------------------------------------------- routers, subject_service
\* The subject ids a client can name: those create_subject has returned.
KnownSubjects == 1..(next_subject - 1)

\* get_file_extension: Path(filename).suffix.lower()
get_file_extension(filename) ==
    CASE filename = "A.pdf" -> ".pdf"
      [] filename = "B.txt" -> ".txt"
      [] filename = "C.exe" -> ".exe"

\* file_ext[1:]
FileType(file_ext) ==
    CASE file_ext = ".pdf" -> "pdf"
      [] file_ext = ".txt" -> "txt"
      [] OTHER -> "exe"

\* What extraction and chunking make of a file's content: extract_text_from_pdf
\* may raise ValueError (latin-1 decodes any txt); the text may be blank; else
\* chunk_text yields n chunks under the configured CHUNK_SIZE, CHUNK_OVERLAP.
Extractions(file_ext) ==
    (IF file_ext = ".pdf" THEN {[kind |-> "error", n |-> 0]} ELSE {})
    \cup {[kind |-> "blank", n |-> 0]}
    \cup {[kind |-> "text", n |-> n] : n \in 0..MaxDocChunks}

\* Where the write path may raise: open() of the saved file,
\* get_or_create_collection, or encode / collection.add after it.
Faults == {"none", "save", "lookup", "add"}

IdleUpload == [pc |-> "idle", subject_id |-> 0, filename |-> ""]
DoneUpload == [pc |-> "done", subject_id |-> 0, filename |-> ""]

UploadResponse(subject_id, status, cause, document_id, chunks_created) ==
    [op |-> "upload_document", subject_id |-> subject_id, status |-> status,
     cause |-> cause, document_id |-> document_id,
     chunks_created |-> chunks_created]

\* No handler is about to return: the event loop is free to run one
Ready == resp.op = "none"

\* A handler returns (or raises): its response goes to the client
Return ==
    /\ ~Ready
    /\ resp' = [op |-> "none"]
    /\ UNCHANGED <<chunkVars, svcVars, stub>>

\* subject_service.create_subject behind POST /subjects/
create_subject ==
    /\ Ready
    /\ next_subject <= MaxSubjects
    /\ subjects' = subjects @@ (next_subject :> <<>>)
    /\ next_subject' = next_subject + 1
    /\ resp' = [op |-> "create_subject", subject_id |-> next_subject,
                status |-> 201]
    /\ UNCHANGED <<collections, uploads, batch, purged>>
    /\ UNCHANGED <<chunkVars, stub>>

\* subject_service.delete_subject behind DELETE /subjects/{id}
delete_subject(subject_id) ==
    /\ Ready
    /\ subject_id \in KnownSubjects
    /\ IF subject_id \notin DOMAIN subjects
       THEN /\ resp' = [op |-> "delete_subject", subject_id |-> subject_id,
                        status |-> 404]
            /\ UNCHANGED <<subjects, collections, purged>>
       ELSE /\ collections' = delete_collection(collections, subject_id)
            /\ subjects' = [x \in DOMAIN subjects \ {subject_id} |-> subjects[x]]
            /\ purged' = IF /\ subject_id \in DOMAIN collections
                            /\ collections[subject_id] # <<>>
                         THEN purged \cup {subject_id}
                         ELSE purged
            /\ resp' = [op |-> "delete_subject", subject_id |-> subject_id,
                        status |-> 204]
    /\ UNCHANGED <<uploads, next_subject, batch>>
    /\ UNCHANGED <<chunkVars, stub>>

\* subject_service.add_document_to_subject: False for a missing subject
add_document_to_subject(subs, subject_id, document_id, filename, file_type) ==
    IF subject_id \notin DOMAIN subs
    THEN subs
    ELSE [subs EXCEPT ![subject_id] =
            Append(@, [id |-> document_id, filename |-> filename,
                       file_type |-> file_type])]

\* upload_document up to `content = await file.read()`
UploadStart(u, subject_id, filename) ==
    /\ Ready
    /\ uploads[u].pc = "idle"
    /\ \A v \in 1..(u - 1) : uploads[v].pc # "idle"
    /\ subject_id \in KnownSubjects
    /\ IF subject_id \notin DOMAIN subjects
       THEN /\ uploads' = [uploads EXCEPT ![u] = DoneUpload]
            /\ resp' = UploadResponse(subject_id, 404, "no_subject", 0, 0)
       ELSE IF get_file_extension(filename) \notin {".pdf", ".txt"}
       THEN /\ uploads' = [uploads EXCEPT ![u] = DoneUpload]
            /\ resp' = UploadResponse(subject_id, 400, "unsupported_type", 0, 0)
       ELSE /\ uploads' = [uploads EXCEPT ![u] =
                            [pc |-> "reading", subject_id |-> subject_id,
                             filename |-> filename]]
            /\ resp' = resp
    /\ UNCHANGED <<subjects, collections, next_subject, batch, purged>>
    /\ UNCHANGED <<chunkVars, stub>>

\* UploadOutcome with the registry written before the index
UploadOutcome_RegistryFirst(u, size_mb, x, fault) ==
    LET subject_id == uploads[u].subject_id
        filename == uploads[u].filename
        file_ext == get_file_extension(filename)
        document_id == u
        metadata == [filename |-> filename, file_type |-> FileType(file_ext),
                     subject_id |-> subject_id]
    IN  IF size_mb > MAX_FILE_SIZE_MB
        THEN /\ resp' = UploadResponse(subject_id, 400, "oversized", 0, 0)
             /\ UNCHANGED <<subjects, collections, batch, purged>>
        ELSE IF x.kind = "error"
        THEN /\ resp' = UploadResponse(subject_id, 400, "unreadable", 0, 0)
             /\ UNCHANGED <<subjects, collections, batch, purged>>
        ELSE IF x.kind = "blank"
        THEN /\ resp' = UploadResponse(subject_id, 500, "empty_text", 0, 0)
             /\ UNCHANGED <<subjects, collections, batch, purged>>
        ELSE IF x.n = 0
        THEN /\ resp' = UploadResponse(subject_id, 500, "no_chunks", 0, 0)
             /\ UNCHANGED <<subjects, collections, batch, purged>>
        ELSE IF fault = "save"
        THEN /\ resp' = UploadResponse(subject_id, 500, "failure", document_id, 0)
             /\ UNCHANGED <<subjects, collections, batch, purged>>
        ELSE IF fault \in {"lookup", "add"}
        THEN /\ subjects' = add_document_to_subject(subjects, subject_id,
                                document_id, filename, FileType(file_ext))
             /\ collections' = IF fault = "add"
                               THEN get_or_create_collection(collections, subject_id)
                               ELSE collections
             /\ batch' = batch @@ (document_id :> x.n)
             /\ resp' = UploadResponse(subject_id, 500, "failure", document_id, 0)
             /\ UNCHANGED purged
        ELSE /\ collections' = add_documents(collections, subject_id,
                                             document_id, x.n, metadata)
             /\ batch' = batch @@ (document_id :> x.n)
             /\ purged' = purged \ {subject_id}
             /\ subjects' = add_document_to_subject(subjects, subject_id,
                                document_id, filename, FileType(file_ext))
             /\ resp' = UploadResponse(subject_id, 200, "ok", document_id, x.n)

\* upload_document after the subject and file type checks have passed and
\* file.read() has returned, for a file of size_mb whose content extracts and
\* chunks to x, with the write path failing at fault. The HTTPException(400)
\* raised inside the try block for blank text or no chunks is no ValueError:
\* `except Exception` catches it and raises HTTPException(500). The document id
\* is a fresh uuid4: the request's number.
UploadOutcome(u, size_mb, x, fault) ==
    LET subject_id == uploads[u].subject_id
        filename == uploads[u].filename
        file_ext == get_file_extension(filename)
        document_id == u
        metadata == [filename |-> filename, file_type |-> FileType(file_ext),
                     subject_id |-> subject_id]
    IN  IF size_mb > MAX_FILE_SIZE_MB
        THEN /\ resp' = UploadResponse(subject_id, 400, "oversized", 0, 0)
             /\ UNCHANGED <<subjects, collections, batch, purged>>
        ELSE IF x.kind = "error"
        THEN /\ resp' = UploadResponse(subject_id, 400, "unreadable", 0, 0)
             /\ UNCHANGED <<subjects, collections, batch, purged>>
        ELSE IF x.kind = "blank"
        THEN /\ resp' = UploadResponse(subject_id, 500, "empty_text", 0, 0)
             /\ UNCHANGED <<subjects, collections, batch, purged>>
        ELSE IF x.n = 0
        THEN /\ resp' = UploadResponse(subject_id, 500, "no_chunks", 0, 0)
             /\ UNCHANGED <<subjects, collections, batch, purged>>
        ELSE IF fault \in {"save", "lookup"}
        THEN /\ resp' = UploadResponse(subject_id, 500, "failure", document_id, 0)
             /\ UNCHANGED <<subjects, collections, batch, purged>>
        ELSE IF fault = "add"
        THEN /\ collections' = get_or_create_collection(collections, subject_id)
             /\ resp' = UploadResponse(subject_id, 500, "failure", document_id, 0)
             /\ UNCHANGED <<subjects, batch, purged>>
        ELSE /\ collections' = add_documents(collections, subject_id,
                                             document_id, x.n, metadata)
             /\ batch' = batch @@ (document_id :> x.n)
             /\ purged' = purged \ {subject_id}
             /\ subjects' = add_document_to_subject(subjects, subject_id,
                                document_id, filename, FileType(file_ext))
             /\ resp' = UploadResponse(subject_id, 200, "ok", document_id, x.n)

\* upload_document from the return of `await file.read()` to its response
UploadResume(u) ==
    /\ Ready
    /\ uploads[u].pc = "reading"
    /\ uploads' = [uploads EXCEPT ![u] = DoneUpload]
    /\ \/ UploadOutcome(u, MAX_FILE_SIZE_MB + 1, [kind |-> "blank", n |-> 0], "none")
       \/ \E size_mb \in {0, MAX_FILE_SIZE_MB} :
            \E x \in Extractions(get_file_extension(uploads[u].filename)) :
                \/ UploadOutcome(u, size_mb, x, "none")
                \/ /\ x.kind = "text" /\ x.n > 0
                   /\ \E fault \in Faults \ {"none"} :
                        UploadOutcome(u, size_mb, x, fault)
    /\ UNCHANGED next_subject
    /\ UNCHANGED <<chunkVars, stub>>

\* vector_db_service.query_documents, called directly
query_documents(subject_id, query, n_results) ==
    /\ Ready
    /\ subject_id \in KnownSubjects
    /\ \E q \in QueryOutcomes(collections, subject_id, query, n_results) :
        /\ collections' = q.collections
        /\ resp' = [op |-> "query_documents", subject_id |-> subject_id,
                    n_results |-> n_results, documents |-> q.documents,
                    metadatas |-> q.metadatas, raised |-> q.raised,
                    failed |-> q.failed, count |-> q.count,
                    requested |-> q.requested, embedded |-> q.embedded]
    /\ UNCHANGED <<subjects, uploads, next_subject, batch, purged>>
    /\ UNCHANGED <<chunkVars, stub>>

\* ChatbotService.answer_question, called directly
answer_question(subject_id, question, n_results) ==
    /\ Ready
    /\ subject_id \in KnownSubjects
    /\ \E a \in AnswerQuestionOutcomes(collections, subject_id, question,
                                         n_results) :
        /\ collections' = a.collections
        /\ resp' = [op |-> "answer_question", subject_id |-> subject_id,
                    n_results |-> n_results, retrieved |-> a.retrieved,
                    metadatas |-> a.metadatas, failed |-> a.failed,
                    count |-> a.count, embedded |-> a.embedded,
                    answer |-> a.answer, sources |-> a.sources,
                    invoked |-> a.invoked, raised |-> a.raised]
    /\ UNCHANGED <<subjects, uploads, next_subject, batch, purged>>
    /\ UNCHANGED <<chunkVars, stub>>

AskResponse(subject_id, status, answer, sources, queried, embedded, invoked) ==
    [op |-> "ask_question", subject_id |-> subject_id, status |-> status,
     answer |-> answer, sources |-> sources, queried |-> queried,
     embedded |-> embedded, invoked |-> invoked]

\* ask_question without the test for a subject that has no documents
ask_question_NoShortCircuit(subject_id, question) ==
    /\ Ready
    /\ subject_id \in KnownSubjects
    /\ IF subject_id \notin DOMAIN subjects
       THEN /\ resp' = AskResponse(subject_id, 404, <<>>, <<>>, FALSE, FALSE, FALSE)
            /\ UNCHANGED collections
       ELSE \E a \in AnswerQuestionOutcomes(collections, subject_id, question,
                                            DEFAULT_N_RESULTS) :
                /\ collections' = a.collections
                /\ resp' = IF a.raised
                           THEN AskResponse(subject_id, 500, <<>>, <<>>, TRUE,
                                            a.embedded, a.invoked)
                           ELSE AskResponse(subject_id, 200, a.answer, a.sources,
                                            TRUE, a.embedded, a.invoked)
    /\ UNCHANGED <<subjects, uploads, next_subject, batch, purged>>
    /\ UNCHANGED <<chunkVars, stub>>

\* ask_question behind POST /chat/
ask_question(subject_id, question) ==
    /\ Ready
    /\ subject_id \in KnownSubjects
    /\ IF subject_id \notin DOMAIN subjects
       THEN /\ resp' = AskResponse(subject_id, 404, <<>>, <<>>, FALSE, FALSE, FALSE)
            /\ UNCHANGED collections
       ELSE IF subjects[subject_id] = <<>>
       THEN /\ resp' = AskResponse(subject_id, 200, Sentinel, <<>>, FALSE, FALSE,
                                   FALSE)
            /\ UNCHANGED collections
       ELSE \E a \in AnswerQuestionOutcomes(collections, subject_id, question,
                                            DEFAULT_N_RESULTS) :
                /\ collections' = a.collections
                /\ resp' = IF a.raised
                           THEN AskResponse(subject_id, 500, <<>>, <<>>, TRUE,
                                            a.embedded, a.invoked)
                           ELSE AskResponse(subject_id, 200, a.answer, a.sources,
                                            TRUE, a.embedded, a.invoked)
    /\ UNCHANGED <<subjects, uploads, next_subject, batch, purged>>
    /\ UNCHANGED <<chunkVars, stub>>

\* answer_question over a stubbed vector_db_service that returns stub
AnswerStubbed ==
    /\ Ready
    /\ \E a \in AnswerOutcomes([i \in 1..Len(stub) |-> ChunkId(0, i - 1)], stub) :
        resp' = [op |-> "answer_question", subject_id |-> 0,
                 n_results |-> DEFAULT_N_RESULTS,
                 retrieved |-> [i \in 1..Len(stub) |-> ChunkId(0, i - 1)],
                 metadatas |-> stub, failed |-> FALSE, count |-> Len(stub),
                 embedded |-> Len(stub) > 0,
                 answer |-> a.answer, sources |-> a.sources,
                 invoked |-> a.invoked, raised |-> a.raised]
    /\ UNCHANGED <<chunkVars, svcVars, stub>>

\* ------------------------------------------------------------ specifications
ChunkIdle ==
    /\ text = <<>>
    /\ chunk_size = 1
    /\ chunk_overlap = 0
    /\ start = 0
    /\ end = 0
    /\ chunks = <<>>
    /\ cpc = "idle"
    /\ starts = {}
    /\ windows = {}

\* The service after start-up, with no subjects.json and an empty chroma_db
SvcInit ==
    /\ subjects = <<>>
    /\ collections = <<>>
    /\ uploads = [u \in 1..MaxUploads |-> IdleUpload]
    /\ next_subject = 1
    /\ batch = <<>>
    /\ purged = {}

\* The metadata a stubbed index may return with a chunk
StubMetadatas ==
    {None, <<>>, [chunk_index |-> 0], [filename |-> "A.pdf"],
     [filename |-> "B.txt", chunk_index |-> 1]}

ChunkInit ==
    /\ text \in SeqsUpTo(Chars, MaxLen)
    /\ chunk_size \in 1..MaxSize
    /\ chunk_overlap \in 0..(chunk_size - 1)
    /\ start = 0
    /\ end = 0
    /\ chunks = <<>>
    /\ cpc = "call"
    /\ starts = {}
    /\ windows = {}
    /\ SvcInit
    /\ resp = [op |-> "none"]
    /\ stub = <<>>

ChunkNext == ChunkEnter \/ ChunkIterate \/ ChunkReturn

\* chunk_text on every text and every 0 <= chunk_overlap < chunk_size
ChunkSpec == ChunkInit /\ [][ChunkNext]_vars

Init ==
    /\ ChunkIdle
    /\ SvcInit
    /\ resp = [op |-> "none"]
    /\ stub = <<>>

Next ==
    \/ create_subject
    \/ \E subject_id \in 1..MaxSubjects : delete_subject(subject_id)
    \/ \E u \in 1..MaxUploads, subject_id \in 1..MaxSubjects, filename \in Filenames :
            UploadStart(u, subject_id, filename)
    \/ \E u \in 1..MaxUploads : UploadResume(u)
    \/ \E subject_id \in 1..MaxSubjects, query \in 1..MaxQueries,
            n_results \in 1..MaxResults :
            query_documents(subject_id, query, n_results)
    \/ \E subject_id \in 1..MaxSubjects, question \in 1..MaxQueries,
            n_results \in 1..MaxResults :
            answer_question(subject_id, question, n_results)
    \/ \E subject_id \in 1..MaxSubjects, question \in 1..MaxQueries :
            ask_question(subject_id, question)
    \/ Return

\* The running service: requests handled one at a time on the event loop
Spec == Init /\ [][Next]_vars

AnswerInit ==
    /\ ChunkIdle
    /\ SvcInit
    /\ resp = [op |-> "none"]
    /\ stub \in SeqsUpTo(StubMetadatas, MaxStub)

AnswerNext == AnswerStubbed

\* answer_question over every retrieval result of a stubbed index
AnswerSpec == AnswerInit /\ [][AnswerNext]_vars

\* ---------------------------------------------------------- chunker claims
\* C1: for overlap < chunk_size, chunk_text terminates. One iteration's outcome
\* is a function of (text, chunk_size, chunk_overlap, start) alone, so the loop
\* terminates exactly when it never begins an iteration at a start position it
\* has begun one at before, and never exhausts memory appending chunks.
C1_Terminates ==
    /\ cpc = "loop" /\ start < Len(text) => start \notin starts
    /\ cpc # "MemoryError"

\* C2: every chunk returned by chunk_text has at most chunk_size characters.
C2_ChunkLengthBounded ==
    \A i \in 1..Len(chunks) : Len(chunks[i]) <= chunk_size

\* A finished call that returned several chunks, one of them of full size.
C2_Witness ==
    /\ cpc = "done"
    /\ Len(chunks) >= 2
    /\ \E i \in 1..Len(chunks) : Len(chunks[i]) = chunk_size

\* C10 as stated: every non-empty text shorter than chunk_size yields exactly one
\* chunk, the trimmed text.
C10_Original ==
    (cpc = "done" /\ Len(text) > 0 /\ Len(text) < chunk_size)
        => chunks = <<strip(text)>>

\* C10 amended: every text shorter than chunk_size that holds a non-whitespace
\* character yields exactly one chunk, the trimmed text.
C10_ShortTextOneChunk ==
    (cpc = "done" /\ strip(text) # <<>> /\ Len(text) < chunk_size)
        => chunks = <<strip(text)>>

\* A short text with surrounding whitespace was chunked to its trimmed form.
C10_Witness ==
    /\ cpc = "done"
    /\ Len(text) < chunk_size
    /\ strip(text) # <<>>
    /\ IsSpace(text[1]) /\ IsSpace(text[Len(text)])
    /\ chunks = <<strip(text)>>

\* The character indexes (0-based) inside a window the scan loop has taken
Covered == {i \in 0..(Len(text) - 1) : \E w \in windows : w[1] <= i /\ i < w[2]}

\* The scan loop will take no window it has not taken: it has exited, or it is
\* about to begin an iteration at a start it has begun one at before.
ScanSettled ==
    \/ cpc = "done" /\ windows # {}
    \/ cpc = "loop" /\ start < Len(text) /\ start \in starts

\* C11: for 0 <= overlap < chunk_size the windows cover the text without gaps:
\* the first window starts at index 0, each following window starts at the
\* previous end less the overlap, which is at or before that end, and once the
\* scan has taken all its windows every character index lies inside one.
C11_WindowsCoverText ==
    /\ windows # {} => \E w \in windows : w[1] = 0
    /\ (cpc = "loop" /\ windows # {} /\ start < Len(text))
        => start = end - chunk_overlap /\ start <= end
    /\ ScanSettled => Covered = 0..(Len(text) - 1)

\* C13: every iteration of the scan loop leaves start greater than it found it.
C13_StartStrictlyIncreases ==
    [][(cpc = "loop" /\ start < Len(text)) => start' > start]_vars

\* C14 as stated: chunk_text returns for a text what it returns for the text
\* with its leading and trailing whitespace removed, and no chunk for a text
\* that is empty or all whitespace.
C14_Original ==
    cpc = "done"
        => LET trimmed == chunk_text(strip(text), chunk_size, chunk_overlap)
           IN  /\ trimmed.returned /\ chunks = trimmed.chunks
               /\ strip(text) = <<>> => chunks = <<>>

\* C14 amended: chunk_text trims each window, not the text: every chunk it
\* appends is non-empty and neither begins nor ends with whitespace, and a text
\* that is empty or all whitespace yields no chunk.
C14_ChunksTrimmed ==
    /\ \A i \in 1..Len(chunks) :
        /\ chunks[i] # <<>>
        /\ ~IsSpace(chunks[i][1])
        /\ ~IsSpace(chunks[i][Len(chunks[i])])
    /\ (cpc = "done" /\ \A i \in 1..Len(text) : IsSpace(text[i]))
        => chunks = <<>>

\* A text with leading whitespace was chunked, a window that ended in whitespace
\* was trimmed, and the chunks differ from those of the trimmed text.
C14_Witness ==
    /\ cpc = "done"
    /\ Len(text) > 0 /\ IsSpace(text[1])
    /\ \E w \in windows :
        /\ slice(text, w[1], w[2]) # strip(slice(text, w[1], w[2]))
        /\ strip(slice(text, w[1], w[2])) # <<>>
    /\ chunks # chunk_text(strip(text), chunk_size, chunk_overlap).chunks

\* ---------------------------------------------------------- service claims
\* The chunk ids in subject_id's collection
IndexedIds(subject_id) ==
    {collections[subject_id][p].id : p \in 1..Len(collections[subject_id])}

\* The chunk ids of the documents listed in subject_id's registry entry
ListedIds(subject_id) ==
    IF subject_id \in DOMAIN subjects
    THEN UNION {{ChunkId(subjects[subject_id][j].id, i)
                    : i \in 0..(batch[subjects[subject_id][j].id] - 1)}
                : j \in 1..Len(subjects[subject_id])}
    ELSE {}

\* C3: each subject's collection holds exactly the chunks of the documents its
\* registry entry lists (none for a deleted subject), each chunk id once.
C3_IndexMatchesRegistry ==
    /\ \A subject_id \in DOMAIN collections :
        /\ IndexedIds(subject_id) = ListedIds(subject_id)
        /\ \A p, q \in 1..Len(collections[subject_id]) :
            p # q => collections[subject_id][p].id # collections[subject_id][q].id
    /\ \A subject_id \in DOMAIN subjects :
        subject_id \notin DOMAIN collections => ListedIds(subject_id) = {}

\* C4: when retrieval returns no chunks, answer_question returns the sentinel
\* with no sources and does not invoke the generation model.
C4_EmptyRetrievalSentinel ==
    (resp.op = "answer_question" /\ resp.retrieved = <<>>)
        => /\ resp.answer = Sentinel
           /\ resp.sources = <<>>
           /\ ~resp.invoked
           /\ ~resp.raised

\* answer_question has answered for an existing subject with no documents.
C4_Witness ==
    /\ resp.op = "answer_question"
    /\ resp.subject_id \in DOMAIN subjects
    /\ subjects[resp.subject_id] = <<>>
    /\ resp.retrieved = <<>> /\ resp.count = 0 /\ ~resp.failed
    /\ resp.answer = Sentinel

\* C5: query_documents never raises; on an empty collection, and when a backend
\* step fails, it returns the empty result, and answer_question then returns the
\* sentinel answer instead of raising.
C5_QueryNeverRaises ==
    /\ resp.op = "query_documents"
        => /\ ~resp.raised
           /\ (resp.count = 0 \/ resp.failed)
                => resp.documents = <<>> /\ resp.metadatas = <<>>
    /\ (resp.op = "answer_question" /\ (resp.count = 0 \/ resp.failed))
        => ~resp.raised /\ resp.answer = Sentinel /\ resp.sources = <<>>

\* A backend step failed while querying a collection that holds chunks.
C5_Witness ==
    /\ resp.op = "query_documents"
    /\ resp.failed /\ resp.count > 0
    /\ resp.documents = <<>> /\ ~resp.raised

C12_RequestClamped ==
    resp.op = "query_documents"
        => /\ resp.requested <= resp.count
           /\ resp.requested <= resp.n_results
           /\ resp.embedded
                => resp.requested \in {resp.n_results, resp.count}
           /\ Len(resp.documents) <= resp.requested
           /\ Len(resp.metadatas) = Len(resp.documents)

\* A query for more neighbours than the collection holds asked for what it holds.
C12_Witness ==
    /\ resp.op = "query_documents"
    /\ resp.embedded
    /\ resp.n_results > resp.count
    /\ resp.requested = resp.count
    /\ Len(resp.documents) = resp.count

\* C15: a question about a subject whose registry entry lists no document is
\* answered before retrieval: the request does not query the vector index, which
\* it leaves as it was, and calls neither the embedding nor the generation model.
C15_EmptySubjectShortCircuits ==
    [][(/\ resp.op = "none"
        /\ resp'.op = "ask_question"
        /\ resp'.subject_id \in DOMAIN subjects
        /\ subjects[resp'.subject_id] = <<>>)
        => /\ ~resp'.queried
           /\ ~resp'.embedded
           /\ ~resp'.invoked
           /\ collections' = collections
           /\ resp'.status = 200
           /\ resp'.answer = Sentinel /\ resp'.sources = <<>>]_vars

\* A question about a subject without documents was answered without a query,
\* while another subject's collection holds chunks.
C15_Witness ==
    /\ resp.op = "ask_question"
    /\ resp.subject_id \in DOMAIN subjects
    /\ subjects[resp.subject_id] = <<>>
    /\ resp.status = 200 /\ ~resp.queried /\ ~resp.embedded
    /\ resp.subject_id \notin DOMAIN collections
    /\ \E other \in DOMAIN collections : collections[other] # <<>>

\* A metadata entry that carries a filename
HasFilename(metadata) == metadata # None /\ "filename" \in DOMAIN metadata

\* The position of the first metadata entry with this filename
FirstSeen(metadatas, filename) ==
    MinOf({i \in 1..Len(metadatas) :
            HasFilename(metadatas[i]) /\ metadatas[i].filename = filename})

\* C7: sources holds each filename of the retrieved metadata exactly once, in the
\* order of first occurrence; entries that are None, empty or without a filename
\* add nothing and raise nothing.
C7_SourcesFirstSeenOrder ==
    (resp.op = "answer_question" /\ ~resp.raised)
        => LET src == resp.sources
               md == resp.metadatas
           IN  /\ {src[i] : i \in 1..Len(src)}
                    = {md[i].filename : i \in {j \in 1..Len(md) : HasFilename(md[j])}}
               /\ \A i, j \in 1..Len(src) : i # j => src[i] # src[j]
               /\ \A i, j \in 1..Len(src) :
                    i < j => FirstSeen(md, src[i]) < FirstSeen(md, src[j])

\* Two files, one of them retrieved twice, beside an entry that is None.
C7_Witness ==
    /\ resp.op = "answer_question" /\ ~resp.raised
    /\ resp.sources = <<"B.txt", "A.pdf">>
    /\ Len(resp.metadatas) = 4
    /\ \E i \in 1..4 : resp.metadatas[i] = None
    /\ Cardinality({i \in 1..4 : HasFilename(resp.metadatas[i])}) = 3

\* The causes of an upload's input-validation failure
ValidationCauses == {"unsupported_type", "oversized", "empty_text", "no_chunks"}

\* C8: every input-validation failure of an upload is answered with HTTP 400 and
\* leaves the vector index and the subject registry unchanged.
C8_ValidationFailuresAre400 ==
    [][(resp.op = "none" /\ resp'.op = "upload_document"
            /\ resp'.cause \in ValidationCauses)
        => (resp'.status = 400 /\ collections' = collections
                /\ subjects' = subjects)]_vars

\* Every document a registry entry lists has all its chunks, {id}_chunk_0 to
\* {id}_chunk_{n-1}, in the collection of its subject
ListedDocumentsIndexed ==
    \A subject_id \in DOMAIN subjects : \A j \in 1..Len(subjects[subject_id]) :
        LET document_id == subjects[subject_id][j].id
        IN  /\ document_id \in DOMAIN batch
            /\ batch[document_id] >= 1
            /\ subject_id \in DOMAIN collections
            /\ \A i \in 0..(batch[document_id] - 1) :
                    ChunkId(document_id, i) \in IndexedIds(subject_id)

\* C16: upload_document writes the index before the registry: after every step
\* each listed document has all its chunks in its subject's collection, and an
\* upload that fails leaves the registry unchanged.
C16_RegistryAfterIndex ==
    [][/\ ListedDocumentsIndexed'
       /\ (resp.op = "none" /\ resp'.op = "upload_document"
                /\ resp'.status # 200)
            => subjects' = subjects]_vars

\* An upload of two chunks is listed and indexed, after a subject was deleted.
C16_Witness ==
    /\ resp.op = "upload_document" /\ resp.status = 200
    /\ resp.chunks_created = 2
    /\ resp.subject_id \in DOMAIN subjects
    /\ \E j \in 1..Len(subjects[resp.subject_id]) :
            subjects[resp.subject_id][j].id = resp.document_id
    /\ Len(collections[resp.subject_id]) = 2
    /\ DOMAIN subjects # KnownSubjects

\* The chunk indexes of a document among a set of chunk ids
IndexesOf(document_id, ids) ==
    {i \in 0..(batch[document_id] - 1) : ChunkId(document_id, i) \in ids}

\* Of this document, the ids hold no chunk or every chunk
NoneOrAll(document_id, ids) ==
    \/ IndexesOf(document_id, ids) = {}
    \/ IndexesOf(document_id, ids) = 0..(batch[document_id] - 1)

\* C9: the chunks of one document become visible in one step: every collection,
\* and every query result not cut short by n_results, holds none or all of them.
C9_BatchAtomic ==
    /\ \A subject_id \in DOMAIN collections : \A document_id \in DOMAIN batch :
            NoneOrAll(document_id, IndexedIds(subject_id))
    /\ (resp.op = "query_documents" /\ ~resp.failed
            /\ resp.n_results >= resp.count)
        => \A document_id \in DOMAIN batch :
            NoneOrAll(document_id,
                      {resp.documents[i] : i \in 1..Len(resp.documents)})

\* A query saw the whole batch of a document of two chunks.
C9_Witness ==
    /\ resp.op = "query_documents"
    /\ Len(resp.documents) = 2
    /\ resp.documents[1][1] = resp.documents[2][1]
    /\ batch[resp.documents[1][1]] = 2
====
